---- MODULE Spec2Model ----
(***************************************************************************)
(* The identity Manager (identity/manager.go) and the login flow Request   *)
(* (selfservice/flow/login/request.go) of kratos as state machines.        *)
(*                                                                         *)
(* Manager operations are split at their suspension points (the store      *)
(* calls): every action is one stretch of a handler between two store      *)
(* calls, so that Spec interleaves concurrent calls the way goroutines     *)
(* sharing one store do, and SeqSpec runs the same handlers one call at a  *)
(* time.  The store, the trait validator, CredentialsEqual and             *)
(* NewVerifyCode live outside the files modelled here; they are modelled   *)
(* from their contracts.                                                   *)
(***************************************************************************)
EXTENDS Integers, Sequences, FiniteSets, TLC

VARIABLES
    store,      \* the identity pool: identity ID -> Identity
    now,        \* the wall clock read by time.Now()
    pc,         \* per caller: where its current Manager call stands
    call,       \* per caller: the arguments of its current call
    identity,   \* per caller: the working *Identity of the call
    original,   \* per caller: UpdateTraits' deep copy of the identity read
    address,    \* per caller: the *VerifiableAddress of RefreshVerifyAddress
    err,        \* per caller: the error the call returned
    trace,      \* per caller: the store and validator calls made so far
    pre,        \* per caller: the store as it was when the call began
    hist,       \* log of completed calls, in completion order
    req,        \* the login Request
    rt,         \* the login Request's last BeforeSave/AfterFind round trip
    validErr,   \* what the last Request.Valid() returned
    validAt,    \* when the last Request.Valid() read the clock
    made        \* how NewLoginRequest built the login Request

mvars == <<store, pc, call, identity, original, address, err, trace, pre, hist>>
lvars == <<req, rt, validErr, validAt, made>>
vars == <<store, now, pc, call, identity, original, address, err, trace, pre,
          hist, req, rt, validErr, validAt, made>>

-----------------------------------------------------------------------------
(* Bounds of the model *)

\* The clock runs from 0 to MaxTime.
MaxTime == 2
\* Verification codes are drawn from 1..MaxCode.
MaxCode == 2

Procs == {"p1", "p2"}
IDs == {"id1", "id2"}

-----------------------------------------------------------------------------
(* Data model *)

NilAddrs == [isNil |-> TRUE, items |-> <<>>]
EmptyAddrs == [isNil |-> FALSE, items |-> <<>>]
Addrs(s) == [isNil |-> FALSE, items |-> s]

AddrA == [Value |-> "a@x", Via |-> "email", Verified |-> TRUE, Code |-> 0, ExpiresAt |-> 0]
AddrB == [Value |-> "b@x", Via |-> "email", Verified |-> FALSE, Code |-> 0, ExpiresAt |-> 0]
NoAddress == [Value |-> "none", Via |-> "none", Verified |-> FALSE, Code |-> 0, ExpiresAt |-> 0]

\* Credentials: a mapping credential type -> material, as a set of entries.
CredsA == {[Type |-> "password", Config |-> "pw1"]}
CredsB == {[Type |-> "password", Config |-> "pw2"]}

NoIdentity == [ID |-> "none", Traits |-> "none", Credentials |-> {}, Addresses |-> NilAddrs]
\* A Manager call: its arguments and options, and at, the clock as
\* RefreshVerifyAddress read it (0 when it did not).
NoCall == [op |-> "none", id |-> "none", traits |-> "none", input |-> NoIdentity,
           addr |-> NoAddress, ExposeValidationErrors |-> FALSE,
           AllowWriteProtectedTraits |-> FALSE, ctxDone |-> FALSE, at |-> 0]

\* Traits documents.  What the validator makes of each is in Validate.
ValidTraits == {"t1", "t2", "tc", "ta", "te"}
TraitVals == ValidTraits \cup {"bad", "opq"}

-----------------------------------------------------------------------------
(* Collaborators of the Manager, modelled from their contracts *)

\* ValidationProvider.IdentityValidator().Validate(i): nil, a structured
\* *jsonschema.ValidationError or an opaque error.  It receives the working
\* identity by pointer and may rewrite its credentials and addresses from
\* the traits: "tc" and "bad" carry credential data, "ta" an address, "te"
\* no address at all.
Validate(i) ==
    [err |-> CASE i.Traits = "bad" -> "ValidationError"
               [] i.Traits = "opq" -> "OpaqueError"
               [] OTHER -> "nil",
     identity |-> CASE i.Traits \in {"tc", "bad"} -> [i EXCEPT !.Credentials = CredsB]
                    [] i.Traits = "ta" -> [i EXCEPT !.Addresses = Addrs(<<AddrB>>)]
                    [] i.Traits = "te" -> [i EXCEPT !.Addresses = EmptyAddrs]
                    [] OTHER -> i]

\* CredentialsEqual(a, b): same credential types, each with the same material.
CredentialsEqual(a, b) ==
    /\ Cardinality(a) = Cardinality(b)
    /\ \A x \in b : \E y \in a : y.Type = x.Type /\ y.Config = x.Config

\* PrivilegedPool.GetIdentityConfidential(ctx, id)
GetIdentityConfidential(s, ctxDone, id) ==
    IF ctxDone THEN [err |-> "Canceled", identity |-> NoIdentity]
    ELSE IF id \notin DOMAIN s THEN [err |-> "NotFound", identity |-> NoIdentity]
    ELSE [err |-> "nil", identity |-> s[id]]

\* PrivilegedPool.CreateIdentity(ctx, i)
CreateIdentity(s, ctxDone, i) ==
    IF ctxDone THEN [err |-> "Canceled", store |-> s]
    ELSE IF i.ID \in DOMAIN s THEN [err |-> "DuplicateIdentity", store |-> s]
    ELSE [err |-> "nil",
          store |-> [x \in DOMAIN s \cup {i.ID} |-> IF x = i.ID THEN i ELSE s[x]]]

\* PrivilegedPool.UpdateIdentity(ctx, i): the whole record is replaced.
UpdateIdentity(s, ctxDone, i) ==
    IF ctxDone THEN [err |-> "Canceled", store |-> s]
    ELSE IF i.ID \notin DOMAIN s THEN [err |-> "NotFound", store |-> s]
    ELSE [err |-> "nil", store |-> [s EXCEPT ![i.ID] = i]]

\* The stored addresses a refers to: <<identity ID, index>>.
AddressSlots(s, a) ==
    UNION {{<<id, k>> : k \in {j \in DOMAIN s[id].Addresses.items :
                                  s[id].Addresses.items[j].Value = a.Value}} :
           id \in DOMAIN s}

\* PrivilegedPool.UpdateVerifiableAddress(ctx, address)
UpdateVerifiableAddress(s, ctxDone, a) ==
    IF ctxDone THEN [err |-> "Canceled", store |-> s]
    ELSE IF AddressSlots(s, a) = {} THEN [err |-> "NotFound", store |-> s]
    ELSE [err |-> "nil",
          store |-> [id \in DOMAIN s |->
                       [s[id] EXCEPT !.Addresses.items =
                          [k \in DOMAIN s[id].Addresses.items |->
                             IF <<id, k>> \in AddressSlots(s, a)
                             THEN a ELSE s[id].Addresses.items[k]]]]]

\* configuration.Provider.SelfServiceVerificationLinkLifespan()
SelfServiceVerificationLinkLifespan == 1

-----------------------------------------------------------------------------
(* identity/manager.go *)

\* Mutant of validate: every validator error is wrapped, whatever its type.
validate_WrapAll(i, o) ==
    LET v == Validate(i) IN
    [err |-> IF v.err = "nil" THEN "nil"
             ELSE IF ~o.ExposeValidationErrors THEN "ErrBadRequest" ELSE v.err,
     identity |-> v.identity]

\* Manager.validate
validate(i, o) ==
    LET v == Validate(i) IN
    [err |-> IF v.err = "nil" THEN "nil"
             ELSE IF v.err = "ValidationError" /\ ~o.ExposeValidationErrors
                  THEN "ErrBadRequest"
                  ELSE v.err,
     identity |-> v.identity]

\* deepcopy.Copy(identity): a structurally independent copy.
DeepCopy(i) == i

\* Mutant of WithTraits: the new traits are never assigned.
WithTraits_Kept(i, traits) == i

\* identity.Traits = traits (line 93).
WithTraits(i, traits) == [i EXCEPT !.Traits = traits]

\* if err := m.validate(i, o); err != nil { return err } of Create (68-70),
\* Update (77-79) and UpdateTraits (94-96).
\* Mutants: the validator's error is not looked at.
CreateRejected_Never(v) == FALSE
UpdateTraitsRejected_Never(v) == FALSE

CreateRejected(v) == v.err # "nil"
UpdateRejected(v) == v.err # "nil"
UpdateTraitsRejected(v) == v.err # "nil"

\* The guard's comparison of the credentials (line 99).
CredentialsModified(i, o) == ~CredentialsEqual(i.Credentials, o.Credentials)

\* Mutant of AddressesModified: the length test alone, no reflect.DeepEqual.
AddressesModified_LengthOnly(i, o) ==
    Len(o.Addresses.items) + Len(i.Addresses.items) # 0

\* Mutant of AddressesModified: reflect.DeepEqual alone, no length test.
AddressesModified_NoLengthTest(i, o) == o.Addresses # i.Addresses

\* The guard's comparison of the addresses (lines 105-107): reflect.DeepEqual
\* tells nil from empty, the length test makes the two equal again.
AddressesModified(i, o) ==
    /\ o.Addresses # i.Addresses
    /\ Len(o.Addresses.items) + Len(i.Addresses.items) # 0

\* newManagerOptions(opts): every subset of the two option functions.
Options == [ExposeValidationErrors : BOOLEAN, AllowWriteProtectedTraits : BOOLEAN]

\* A caller makes one Manager call.
CanStart(c) == pc[c] = "idle"

\* The call of c returns e, leaving the store as s.
Finish(c, cl, e, s) ==
    /\ pc' = [pc EXCEPT ![c] = "done"]
    /\ err' = [err EXCEPT ![c] = e]
    /\ store' = s
    /\ hist' = Append(hist, [proc |-> c, call |-> cl, err |-> e,
                             before |-> store, store |-> s])

\* UpdateTraits, lines 85-93: options, the confidential read, the snapshot
\* and the new traits.
UpdateTraitsRead(c) ==
    /\ CanStart(c)
    /\ \E id \in IDs, traits \in TraitVals, o \in Options, ctxDone \in BOOLEAN :
         LET got == GetIdentityConfidential(store, ctxDone, id)
             cl == [NoCall EXCEPT !.op = "UpdateTraits", !.id = id, !.traits = traits,
                       !.ExposeValidationErrors = o.ExposeValidationErrors,
                       !.AllowWriteProtectedTraits = o.AllowWriteProtectedTraits,
                       !.ctxDone = ctxDone]
         IN
         /\ call' = [call EXCEPT ![c] = cl]
         /\ pre' = [pre EXCEPT ![c] = store]
         /\ trace' = [trace EXCEPT ![c] = <<"GetIdentityConfidential">>]
         /\ address' = [address EXCEPT ![c] = NoAddress]
         /\ IF got.err # "nil"
            THEN /\ identity' = [identity EXCEPT ![c] = NoIdentity]
                 /\ original' = [original EXCEPT ![c] = NoIdentity]
                 /\ Finish(c, cl, got.err, store)
            ELSE /\ original' = [original EXCEPT ![c] = DeepCopy(got.identity)]
                 /\ identity' = [identity EXCEPT ![c] = WithTraits(got.identity, traits)]
                 /\ pc' = [pc EXCEPT ![c] = "ut_validate"]
                 /\ err' = [err EXCEPT ![c] = "nil"]
                 /\ UNCHANGED <<store, hist>>
    /\ UNCHANGED <<now, lvars>>

\* UpdateTraits, lines 94-96: the validator call.
UpdateTraitsValidate(c) ==
    /\ pc[c] = "ut_validate"
    /\ LET v == validate(identity[c], call[c]) IN
       /\ identity' = [identity EXCEPT ![c] = v.identity]
       /\ trace' = [trace EXCEPT ![c] = Append(@, "Validate")]
       /\ IF UpdateTraitsRejected(v)
          THEN Finish(c, call[c], v.err, store)
          ELSE /\ pc' = [pc EXCEPT ![c] = "ut_guard"]
               /\ UNCHANGED <<store, err, hist>>
    /\ UNCHANGED <<now, call, original, address, pre, lvars>>

\* Mutant of GuardOriginal: the snapshot shares the working identity.
GuardOriginal_Aliased(c) == identity[c]

\* The snapshot the guard compares the working identity with.
GuardOriginal(c) == original[c]

\* Mutant of GuardFails: the guard never rejects.
GuardFails_Never(c) == FALSE

\* Mutant of GuardFails: AllowWriteProtectedTraits is not consulted.
GuardFails_IgnoringOption(c) ==
    \/ CredentialsModified(identity[c], GuardOriginal(c))
    \/ AddressesModified(identity[c], GuardOriginal(c))

\* Whether the guard of lines 98-112 rejects the working identity.
GuardFails(c) ==
    /\ ~call[c].AllowWriteProtectedTraits
    /\ \/ CredentialsModified(identity[c], GuardOriginal(c))
       \/ AddressesModified(identity[c], GuardOriginal(c))

\* UpdateTraits, lines 98-112: the protected-field guard.
UpdateTraitsGuard(c) ==
    /\ pc[c] = "ut_guard"
    /\ IF GuardFails(c)
       THEN /\ identity' = [identity EXCEPT ![c] = GuardOriginal(c)]
            /\ Finish(c, call[c], "ErrProtectedFieldModified", store)
       ELSE /\ pc' = [pc EXCEPT ![c] = "ut_write"]
            /\ UNCHANGED <<identity, store, err, hist>>
    /\ UNCHANGED <<now, call, original, address, trace, pre, lvars>>

\* UpdateTraits, line 114: the write.
UpdateTraitsWrite(c) ==
    /\ pc[c] = "ut_write"
    /\ LET w == UpdateIdentity(store, call[c].ctxDone, identity[c]) IN
       /\ trace' = [trace EXCEPT ![c] = Append(@, "UpdateIdentity")]
       /\ Finish(c, call[c], w.err, w.store)
    /\ UNCHANGED <<now, call, identity, original, address, pre, lvars>>

\* The identities callers pass to Create.
CreateInputs ==
    [ID : IDs, Traits : {"t1", "tc", "bad", "opq"}, Credentials : {CredsA},
     Addresses : {NilAddrs}]

\* The identities callers pass to Update.
UpdateInputs ==
    [ID : IDs, Traits : {"t2", "bad", "opq"}, Credentials : {CredsA, CredsB},
     Addresses : {NilAddrs, Addrs(<<AddrA>>)}]

\* Create, lines 67-70: options and the validator call.
CreateValidate(c) ==
    /\ CanStart(c)
    /\ \E i \in CreateInputs, expose \in BOOLEAN, ctxDone \in BOOLEAN :
         LET cl == [NoCall EXCEPT !.op = "Create", !.id = i.ID, !.input = i,
                       !.ExposeValidationErrors = expose, !.ctxDone = ctxDone]
             v == validate(i, cl)
         IN
         /\ call' = [call EXCEPT ![c] = cl]
         /\ pre' = [pre EXCEPT ![c] = store]
         /\ trace' = [trace EXCEPT ![c] = <<"Validate">>]
         /\ identity' = [identity EXCEPT ![c] = v.identity]
         /\ original' = [original EXCEPT ![c] = NoIdentity]
         /\ address' = [address EXCEPT ![c] = NoAddress]
         /\ IF CreateRejected(v)
            THEN Finish(c, cl, v.err, store)
            ELSE /\ pc' = [pc EXCEPT ![c] = "cr_write"]
                 /\ err' = [err EXCEPT ![c] = "nil"]
                 /\ UNCHANGED <<store, hist>>
    /\ UNCHANGED <<now, lvars>>

\* Create, line 72: the store's CreateIdentity.
CreateWrite(c) ==
    /\ pc[c] = "cr_write"
    /\ LET w == CreateIdentity(store, call[c].ctxDone, identity[c]) IN
       /\ trace' = [trace EXCEPT ![c] = Append(@, "CreateIdentity")]
       /\ Finish(c, call[c], w.err, w.store)
    /\ UNCHANGED <<now, call, identity, original, address, pre, lvars>>

\* Update, lines 76-79: options and the validator call.
UpdateValidate(c) ==
    /\ CanStart(c)
    /\ \E i \in UpdateInputs, expose \in BOOLEAN, ctxDone \in BOOLEAN :
         LET cl == [NoCall EXCEPT !.op = "Update", !.id = i.ID, !.input = i,
                       !.ExposeValidationErrors = expose, !.ctxDone = ctxDone]
             v == validate(i, cl)
         IN
         /\ call' = [call EXCEPT ![c] = cl]
         /\ pre' = [pre EXCEPT ![c] = store]
         /\ trace' = [trace EXCEPT ![c] = <<"Validate">>]
         /\ identity' = [identity EXCEPT ![c] = v.identity]
         /\ original' = [original EXCEPT ![c] = NoIdentity]
         /\ address' = [address EXCEPT ![c] = NoAddress]
         /\ IF UpdateRejected(v)
            THEN Finish(c, cl, v.err, store)
            ELSE /\ pc' = [pc EXCEPT ![c] = "up_write"]
                 /\ err' = [err EXCEPT ![c] = "nil"]
                 /\ UNCHANGED <<store, hist>>
    /\ UNCHANGED <<now, lvars>>

\* Update, line 81: the store's UpdateIdentity.
UpdateWrite(c) ==
    /\ pc[c] = "up_write"
    /\ LET w == UpdateIdentity(store, call[c].ctxDone, identity[c]) IN
       /\ trace' = [trace EXCEPT ![c] = Append(@, "UpdateIdentity")]
       /\ Finish(c, call[c], w.err, w.store)
    /\ UNCHANGED <<now, call, identity, original, address, pre, lvars>>

\* NewVerifyCode(): a code from the random source, or its failure (code 0).
NewVerifyCode == [err : {"nil"}, code : 1..MaxCode] \cup {[err |-> "EntropyError", code |-> 0]}

\* The addresses a caller may hold a pointer to: the stored ones, and one
\* the store does not know.
KnownAddresses ==
    UNION {{store[id].Addresses.items[k] : k \in DOMAIN store[id].Addresses.items} :
           id \in DOMAIN store}
    \cup {AddrB}

\* Mutant of Refreshed: the expiry is the time of the call.
Refreshed_NoLifespan(a, code, t) ==
    [a EXCEPT !.Code = code, !.ExpiresAt = t]

\* Mutant of Refreshed: a refreshed address has to be verified again.
Refreshed_Unverified(a, code, t) ==
    [a EXCEPT !.Code = code,
              !.ExpiresAt = t + SelfServiceVerificationLinkLifespan,
              !.Verified = FALSE]

\* The address after lines 123-124, with the clock reading t.
Refreshed(a, code, t) ==
    [a EXCEPT !.Code = code,
              !.ExpiresAt = t + SelfServiceVerificationLinkLifespan]

\* RefreshVerifyAddress, lines 118-124: the code and the expiry.  time.Now()
\* reads a clock that has not gone back since it was last read; at is what
\* it read.
RefreshVerifyAddressCode(c) ==
    /\ CanStart(c)
    /\ \E a \in KnownAddresses, ctxDone \in BOOLEAN, g \in NewVerifyCode, t \in now..MaxTime :
         LET cl == [NoCall EXCEPT !.op = "RefreshVerifyAddress", !.addr = a,
                       !.ctxDone = ctxDone]
         IN
         /\ call' = [call EXCEPT ![c] = IF g.err # "nil" THEN cl
                                        ELSE [cl EXCEPT !.at = t]]
         /\ pre' = [pre EXCEPT ![c] = store]
         /\ trace' = [trace EXCEPT ![c] = <<"NewVerifyCode">>]
         /\ identity' = [identity EXCEPT ![c] = NoIdentity]
         /\ original' = [original EXCEPT ![c] = NoIdentity]
         /\ IF g.err # "nil"
            THEN /\ address' = [address EXCEPT ![c] = a]
                 /\ now' = now
                 /\ Finish(c, cl, g.err, store)
            ELSE /\ address' = [address EXCEPT ![c] = Refreshed(a, g.code, t)]
                 /\ now' = t
                 /\ pc' = [pc EXCEPT ![c] = "rva_write"]
                 /\ err' = [err EXCEPT ![c] = "nil"]
                 /\ UNCHANGED <<store, hist>>
    /\ UNCHANGED lvars

\* RefreshVerifyAddress, line 125: the store's UpdateVerifiableAddress.
RefreshVerifyAddressWrite(c) ==
    /\ pc[c] = "rva_write"
    /\ LET w == UpdateVerifiableAddress(store, call[c].ctxDone, address[c]) IN
       /\ trace' = [trace EXCEPT ![c] = Append(@, "UpdateVerifiableAddress")]
       /\ Finish(c, call[c], w.err, w.store)
    /\ UNCHANGED <<now, call, identity, original, address, pre, lvars>>

-----------------------------------------------------------------------------
(* selfservice/flow/login/request.go *)

\* identity.CredentialsType
CredentialsTypes == {"password", "oidc"}

\* RequestMethod: the method's own credential type and its form state.
RequestMethod == [Method : CredentialsTypes, Config : {"f1", "f2"}]

\* A map[identity.CredentialsType]*RequestMethod: nil, or a mapping.
NilMethods == [isNil |-> TRUE, m |-> <<>>]
MakeMethods(f) == [isNil |-> FALSE, m |-> f]

\* A RequestMethodsRaw slice: nil, or a sequence.
NilRaw == [isNil |-> TRUE, s |-> <<>>]
MakeRaw(q) == [isNil |-> FALSE, s |-> q]

\* The lifespans NewLoginRequest is called with.
Lifespans == {0, 1, 2}

\* Mutant of NewLoginRequest: IssuedAt takes the expiry time.
NewLoginRequest_IssuedAtExpiry(exp, at, ti) ==
    [ExpiresAt |-> at + exp, IssuedAt |-> ti + exp,
     Methods |-> [isNil |-> FALSE, m |-> <<>>],
     MethodsRaw |-> [isNil |-> TRUE, s |-> <<>>]]

\* NewLoginRequest, lines 84-91: ExpiresAt and IssuedAt come from two reads
\* of the clock, at and ti.
NewLoginRequest(exp, at, ti) ==
    [ExpiresAt |-> at + exp, IssuedAt |-> ti,
     Methods |-> MakeMethods(<<>>), MethodsRaw |-> NilRaw]

NoRequest == NewLoginRequest(0, 0, 0)
NoRoundTrip == [phase |-> "none", orig |-> NilMethods, hook |-> "none", raw |-> NilRaw]

\* No Valid() call has been made on the request as it stands.
NotValidated == [called |-> FALSE, t1 |-> 0, t2 |-> 0, kept |-> TRUE]

\* The request was built with lifespan exp, the clock reading at and then ti.
\* modified: IssuedAt or ExpiresAt have been written since; expired: Valid()
\* has returned FlowExpired since.
Made(exp, at, ti) ==
    [exp |-> exp, at |-> at, ti |-> ti, modified |-> FALSE, expired |-> FALSE]

\* The timestamps are no longer the ones NewLoginRequest set.
Modified == [Made(0, 0, 0) EXCEPT !.modified = TRUE]

\* The orders in which range visits the keys of a map.
Orders(K) == {q \in [1..Cardinality(K) -> K] : \A i, j \in DOMAIN q : i # j => q[i] # q[j]}

\* Code outside this file (flow handlers, JSON decoding) stores a method in
\* the exported Methods field, line 55.
SetMethod ==
    /\ ~req.Methods.isNil
    /\ \E k \in CredentialsTypes, v \in RequestMethod :
         req' = [req EXCEPT !.Methods.m =
                   [x \in DOMAIN req.Methods.m \cup {k} |->
                      IF x = k THEN v ELSE req.Methods.m[x]]]
    /\ rt' = NoRoundTrip
    /\ UNCHANGED <<now, validErr, validAt, made, mvars>>

\* The times the timestamp fields may hold.
TimeVals == 0..(MaxTime + 1)

\* Code outside this file (loading a stored row, JSON decoding) writes the
\* exported ExpiresAt and IssuedAt fields, lines 34 and 39.
SetTimes ==
    /\ \E e \in TimeVals, i \in TimeVals :
         /\ <<e, i>> # <<req.ExpiresAt, req.IssuedAt>>
         /\ req' = [req EXCEPT !.ExpiresAt = e, !.IssuedAt = i]
    /\ validAt' = NotValidated
    /\ validErr' = "nil"
    /\ made' = Modified
    /\ UNCHANGED <<now, rt, mvars>>

\* The slice BeforeSave builds when range visits the keys in order q.
Flatten(M, q) == [i \in DOMAIN q |-> M[q[i]]]

\* Mutant of MethodsAfterSave: the mapping is not cleared.
MethodsAfterSave_Kept(M) == M

\* r.Methods = nil (line 99).
MethodsAfterSave(M) == NilMethods

\* BeforeSave, lines 94-101.
BeforeSave ==
    /\ \E q \in Orders(DOMAIN req.Methods.m) :
         req' = [req EXCEPT !.MethodsRaw = MakeRaw(Flatten(req.Methods.m, q)),
                            !.Methods = MethodsAfterSave(req.Methods)]
    /\ rt' = [phase |-> "saved", orig |-> req.Methods, hook |-> "BeforeSave",
              raw |-> NilRaw]
    /\ UNCHANGED <<now, validErr, validAt, made, mvars>>

\* The key under which AfterFind files an element of MethodsRaw (line 115).
RebuildKey(e) == e.Method

\* Mutant of Rebuild: an earlier element is kept over a later one.
Rebuild_FirstWins(q) ==
    [k \in {RebuildKey(q[i]) : i \in DOMAIN q} |->
        q[CHOOSE i \in DOMAIN q :
            /\ RebuildKey(q[i]) = k
            /\ \A j \in DOMAIN q : RebuildKey(q[j]) = k => i <= j]]

\* The mapping AfterFind builds from the slice q (lines 112-116): a later
\* element replaces an earlier one filed under the same key.
Rebuild(q) ==
    [k \in {RebuildKey(q[i]) : i \in DOMAIN q} |->
        q[CHOOSE i \in DOMAIN q :
            /\ RebuildKey(q[i]) = k
            /\ \A j \in DOMAIN q : RebuildKey(q[j]) = k => j <= i]]

\* AfterFind, lines 111-119.
AfterFindBody(hook) ==
    /\ req' = [req EXCEPT !.Methods = MakeMethods(Rebuild(req.MethodsRaw.s)),
                          !.MethodsRaw = NilRaw]
    /\ rt' = [phase |-> IF rt.phase = "saved" THEN "found" ELSE "none",
              orig |-> IF rt.phase = "saved" THEN rt.orig ELSE NilMethods,
              hook |-> hook,
              raw |-> req.MethodsRaw]
    /\ UNCHANGED <<now, validErr, validAt, made, mvars>>

AfterFind == AfterFindBody("AfterFind")

\* AfterCreate, lines 103-105.
AfterCreate == AfterFindBody("AfterCreate")

\* AfterUpdate, lines 107-109.
AfterUpdate == AfterFindBody("AfterUpdate")

\* Mutant of ValidResult: a request is expired at ExpiresAt already.
ValidResult_NonStrict(r, t1, t2) ==
    IF r.ExpiresAt <= t1 THEN "FlowExpired"
    ELSE IF r.IssuedAt > t2 THEN "ErrBadRequest"
    ELSE "nil"

\* Request.Valid, lines 126-135, with the clock read t1 (line 127) and then
\* t2 (line 131).
ValidResult(r, t1, t2) ==
    IF r.ExpiresAt < t1 THEN "FlowExpired"
    ELSE IF r.IssuedAt > t2 THEN "ErrBadRequest"
    ELSE "nil"

\* Request.Valid: the clock may advance between its two readings.
Valid ==
    /\ \E t2 \in now..MaxTime :
         /\ validErr' = ValidResult(req, now, t2)
         /\ now' = t2
         /\ req' = req
         /\ validAt' = [called |-> TRUE, t1 |-> now, t2 |-> t2, kept |-> req' = req]
         /\ made' = IF made.modified THEN made
                    ELSE [made EXCEPT !.expired = @ \/ validErr' = "FlowExpired"]
    /\ UNCHANGED <<rt, mvars>>

\* Time passes.
Tick ==
    /\ now < MaxTime
    /\ now' = now + 1
    /\ UNCHANGED <<lvars, mvars>>

(* Specifications *)

\* The stores a behaviour starts from: identity id1 exists, id2 does not.
InitialStores ==
    {[x \in {"id1"} |-> [ID |-> "id1", Traits |-> "t1", Credentials |-> CredsA,
                         Addresses |-> a]] :
        a \in {NilAddrs, EmptyAddrs, Addrs(<<AddrA>>)}}

\* No Manager call has been made.
ManagerIdle ==
    /\ pc = [c \in Procs |-> "idle"]
    /\ call = [c \in Procs |-> NoCall]
    /\ identity = [c \in Procs |-> NoIdentity]
    /\ original = [c \in Procs |-> NoIdentity]
    /\ address = [c \in Procs |-> NoAddress]
    /\ err = [c \in Procs |-> "nil"]
    /\ trace = [c \in Procs |-> <<>>]
    /\ pre = [c \in Procs |-> store]
    /\ hist = <<>>

LoginIdle ==
    /\ req = NoRequest
    /\ rt = NoRoundTrip
    /\ validErr = "nil"
    /\ validAt = NotValidated
    /\ made = Made(0, 0, 0)

Init ==
    /\ store \in InitialStores
    /\ now = 0
    /\ ManagerIdle
    /\ LoginIdle

\* A caller begins a call.
Begin(c) ==
    \/ CreateValidate(c)
    \/ UpdateValidate(c)
    \/ UpdateTraitsRead(c)
    \/ RefreshVerifyAddressCode(c)

\* A call in flight goes on from its suspension point.
Continue(c) ==
    \/ CreateWrite(c)
    \/ UpdateWrite(c)
    \/ UpdateTraitsValidate(c)
    \/ UpdateTraitsGuard(c)
    \/ UpdateTraitsWrite(c)
    \/ RefreshVerifyAddressWrite(c)

Next == \E c \in Procs : Begin(c) \/ Continue(c)

\* Concurrent callers on one store.
Spec == Init /\ [][Next]_vars

\* No call is in flight.
Quiet == \A c \in Procs : pc[c] \in {"idle", "done"}

SeqNext == \E c \in Procs : (Quiet /\ Begin(c)) \/ Continue(c)

\* One call at a time.
SeqSpec == Init /\ [][SeqNext]_vars

\* A login request is created at some time and then handled: stored, loaded,
\* filled in and validated while time passes.
LoginInit ==
    /\ store = [x \in {} |-> NoIdentity]
    /\ ManagerIdle
    /\ \E exp \in Lifespans, at \in 0..1 :
         \E ti \in at..1 :
             /\ now = ti
             /\ req = NewLoginRequest(exp, at, ti)
             /\ made = Made(exp, at, ti)
    /\ rt = NoRoundTrip
    /\ validErr = "nil"
    /\ validAt = NotValidated

LoginNext ==
    \/ SetMethod
    \/ SetTimes
    \/ BeforeSave
    \/ AfterCreate
    \/ AfterUpdate
    \/ AfterFind
    \/ Valid
    \/ Tick

LoginSpec == LoginInit /\ [][LoginNext]_vars

-----------------------------------------------------------------------------
(* Properties of the Manager *)

\* The completed calls.
Entries == {hist[k] : k \in DOMAIN hist}

Range(q) == {q[k] : k \in DOMAIN q}

\* The store as it was when call h began.
PreOf(h) == pre[h.proc]

\* The confidential read of UpdateTraits call h finds the identity.
Reads(h) == ~h.call.ctxDone /\ h.call.id \in DOMAIN PreOf(h)

\* The identity UpdateTraits call h read.
Stored(h) == PreOf(h)[h.call.id]

\* What the validator returns for UpdateTraits call h.
Validated(h) == Validate([Stored(h) EXCEPT !.Traits = h.call.traits])

\* What the validator returns for call h of Create, Update or UpdateTraits.
ValidatorResult(h) ==
    IF h.call.op = "UpdateTraits" THEN Validated(h) ELSE Validate(h.call.input)

\* Equal credentials and equal addresses, an absent and an empty address
\* collection counting as equal.
SameProtected(i, j) ==
    /\ i.Credentials = j.Credentials
    /\ i.Addresses.items = j.Addresses.items

\* An UpdateTraits call without AllowWriteProtectedTraits, on an identity of
\* the store, whose traits the validator accepts.
C1_Case(h) ==
    /\ h.call.op = "UpdateTraits"
    /\ ~h.call.AllowWriteProtectedTraits
    /\ Reads(h)
    /\ Validated(h).err = "nil"

C1_Result(h) ==
    /\ h.err = "nil"
    /\ h.store[h.call.id].Traits = h.call.traits
    /\ SameProtected(h.store[h.call.id], Stored(h))

\* C1 as stated: for every stored identity and every traits value the
\* validator accepts, UpdateTraits without AllowWriteProtectedTraits
\* succeeds, the stored Traits become T, and the stored Credentials and
\* VerifiableAddresses are as before the call.
C1_AcceptedTraitsSucceed == \A h \in Entries : C1_Case(h) => C1_Result(h)

\* C1 amended: the same, for the traits the validator accepts without
\* changing the working identity's Credentials or VerifiableAddresses.
C1_UnalteredTraitsSucceed ==
    \A h \in Entries :
        (C1_Case(h) /\ SameProtected(Validated(h).identity, Stored(h))) => C1_Result(h)

C1_Witness ==
    \E h \in Entries :
        /\ C1_Case(h)
        /\ SameProtected(Validated(h).identity, Stored(h))
        /\ h.call.traits # Stored(h).Traits
        /\ Stored(h).Addresses.items # <<>>
        /\ h.store[h.call.id].Traits = h.call.traits

\* An UpdateTraits call without AllowWriteProtectedTraits whose working
\* identity, once validated, differs from the snapshot in its Credentials or
\* VerifiableAddresses.
C2_Case(h) ==
    /\ C1_Case(h)
    /\ ~SameProtected(Validated(h).identity, Stored(h))

C3_Writes(h) ==
    /\ h.call.op = "UpdateTraits"
    /\ ~h.call.AllowWriteProtectedTraits
    /\ h.err = "nil"

C4_Case ==
    /\ Len(hist) = 2
    /\ hist[1].call = hist[2].call
    /\ hist[1].call.op = "UpdateTraits"
    /\ Reads(hist[1])
    /\ Validated(hist[1]).err = "nil"

C4_Result ==
    /\ hist[1].err = "nil"
    /\ hist[2].err = "nil"
    /\ hist[2].store = hist[1].store

\* C4 as stated: both calls succeed and the second leaves the store as the
\* first left it.
C4_Idempotent == C4_Case => C4_Result

\* C4 amended: the same, when AllowWriteProtectedTraits is set or the
\* validator accepts the traits without changing the working identity's
\* Credentials or VerifiableAddresses.
C4_IdempotentWhenUnguarded ==
    (/\ C4_Case
     /\ \/ hist[1].call.AllowWriteProtectedTraits
        \/ SameProtected(Validated(hist[1]).identity, Stored(hist[1])))
    => C4_Result

C4_Witness ==
    /\ C4_Case
    /\ ~hist[1].call.AllowWriteProtectedTraits
    /\ hist[1].store # PreOf(hist[1])
    /\ hist[2].store = hist[1].store
    /\ hist[2].err = "nil"

\* An UpdateTraits call whose working identity the validator rejects.
C5_Case(h) ==
    /\ h.call.op = "UpdateTraits"
    /\ Reads(h)
    /\ Validated(h).err # "nil"

\* C5: the error is returned at once: no guard (no ProtectedFieldModified,
\* no restoring of the working identity, which keeps the new traits and
\* whatever the validator did to it), no UpdateIdentity, store unchanged.
C5_RejectedReturnsAtOnce ==
    \A h \in Entries :
        C5_Case(h) =>
            /\ h.err \notin {"nil", "ErrProtectedFieldModified"}
            /\ trace[h.proc] = <<"GetIdentityConfidential", "Validate">>
            /\ h.store = PreOf(h)
            /\ identity[h.proc] = Validated(h).identity
            /\ identity[h.proc].Traits = h.call.traits

C5_Witness ==
    \E h \in Entries :
        /\ C5_Case(h)
        /\ ~h.call.AllowWriteProtectedTraits
        /\ ~SameProtected(identity[h.proc], Stored(h))
        /\ identity[h.proc].Traits # Stored(h).Traits
        /\ original[h.proc] = Stored(h)

\* A Create, Update or UpdateTraits call whose validation fails.
C6_Case(h) ==
    /\ \/ h.call.op \in {"Create", "Update"}
       \/ h.call.op = "UpdateTraits" /\ Reads(h)
    /\ ValidatorResult(h).err # "nil"

\* C6 as stated: without ExposeValidationErrors the call returns the generic
\* bad-request error, with it the validator's error.
C6_RedactedUnlessExposed ==
    \A h \in Entries :
        C6_Case(h) =>
            h.err = IF h.call.ExposeValidationErrors
                    THEN ValidatorResult(h).err ELSE "ErrBadRequest"

\* C6 amended: the generic bad-request error is returned when the
\* validator's error is a schema validation error and ExposeValidationErrors
\* is not set; in every other case (the option set, or an error of another
\* kind) the validator's error is returned unchanged.
C6_SchemaErrorsRedactedUnlessExposed ==
    \A h \in Entries :
        C6_Case(h) =>
            h.err = IF /\ ~h.call.ExposeValidationErrors
                       /\ ValidatorResult(h).err = "ValidationError"
                    THEN "ErrBadRequest" ELSE ValidatorResult(h).err

C6_Witness ==
    \E h \in Entries, g \in Entries :
        /\ C6_Case(h) /\ C6_Case(g)
        /\ ~h.call.ExposeValidationErrors /\ ~g.call.ExposeValidationErrors
        /\ h.err = "OpaqueError"
        /\ g.err = "ErrBadRequest"

\* An UpdateTraits call with AllowWriteProtectedTraits whose validation
\* succeeds.
C7_Case(h) ==
    /\ h.call.op = "UpdateTraits"
    /\ h.call.AllowWriteProtectedTraits
    /\ Reads(h)
    /\ Validated(h).err = "nil"

\* C7: the guard is skipped: UpdateIdentity is called with the working
\* identity, whatever its Credentials and VerifiableAddresses, and
\* ProtectedFieldModified is not returned.
C7_PrivilegedSkipsGuard ==
    \A h \in Entries :
        C7_Case(h) =>
            /\ h.err = "nil"
            /\ trace[h.proc] = <<"GetIdentityConfidential", "Validate", "UpdateIdentity">>
            /\ identity[h.proc] = Validated(h).identity
            /\ h.store[h.call.id] = identity[h.proc]

C7_Witness ==
    \E h \in Entries :
        /\ C7_Case(h)
        /\ ~SameProtected(identity[h.proc], original[h.proc])
        /\ h.store[h.call.id].Credentials # h.before[h.call.id].Credentials

\* C8: Create calls CreateIdentity only after validation has succeeded, then
\* once, returning its error as is; when validation fails, or CreateIdentity
\* does, the store is unchanged.
C8_CreatePersistsNothingOnFailure ==
    \A h \in Entries :
        h.call.op = "Create" =>
            LET v == Validate(h.call.input) IN
            /\ v.err # "nil" =>
                   /\ trace[h.proc] = <<"Validate">>
                   /\ h.err # "nil"
            /\ v.err = "nil" =>
                   /\ trace[h.proc] = <<"Validate", "CreateIdentity">>
                   /\ h.err = CreateIdentity(h.before, h.call.ctxDone, v.identity).err
            /\ h.err # "nil" => h.store = h.before /\ h.store = PreOf(h)
            /\ h.err = "nil" => h.store[h.call.id] = v.identity

C8_Witness ==
    \E h \in Entries, g \in Entries :
        /\ h.call.op = "Create" /\ g.call.op = "Create"
        /\ Validate(h.call.input).err # "nil"
        /\ h.call.id \notin DOMAIN h.store
        /\ g.err = "DuplicateIdentity"

\* C9 as stated: a call whose context is already done returns a
\* cancellation error, writes nothing to the store and leaves the identity
\* or address it was given as it was.
C9_DoneContextFailsFast ==
    \A h \in Entries :
        h.call.ctxDone =>
            /\ h.err = "Canceled"
            /\ h.store = h.before
            /\ h.call.op \in {"Create", "Update"} => identity[h.proc] = h.call.input
            /\ h.call.op = "RefreshVerifyAddress" =>
                   /\ address[h.proc].Code = h.call.addr.Code
                   /\ address[h.proc].ExpiresAt = h.call.addr.ExpiresAt

\* A RefreshVerifyAddress call that got a code and went on to the store.
C13_Case(h) ==
    /\ h.call.op = "RefreshVerifyAddress"
    /\ h.err # "EntropyError"

\* Two such calls in sequence, both stored, the second on the address as
\* the first left it.
C13_Pair ==
    /\ Len(hist) = 2
    /\ C13_Case(hist[1]) /\ hist[1].err = "nil"
    /\ C13_Case(hist[2]) /\ hist[2].err = "nil"
    /\ hist[2].call.addr = address[hist[1].proc]

C14_Case(h) ==
    /\ C1_Case(h)
    /\ Validated(h).identity.Credentials = Stored(h).Credentials

\* C14: the address guard of such a call fails with ProtectedFieldModified
\* exactly when the VerifiableAddresses of the snapshot and of the working
\* identity are not deep-equal and at least one of the two is non-empty; nil
\* and empty compare equal and never trigger the guard.
C14_AddressGuard ==
    \A h \in Entries :
        C14_Case(h) =>
            LET w == Validated(h).identity.Addresses
                o == Stored(h).Addresses
            IN
            /\ h.err = "ErrProtectedFieldModified"
                   <=> (w # o /\ (Len(w.items) > 0 \/ Len(o.items) > 0))
            /\ (Len(w.items) = 0 /\ Len(o.items) = 0) => h.err = "nil"

\* The snapshot has nil addresses, the working identity an empty collection,
\* and the call has stored the working identity.
C14_Witness ==
    \E h \in Entries :
        /\ C14_Case(h)
        /\ Stored(h).Addresses = NilAddrs
        /\ Validated(h).identity.Addresses = EmptyAddrs
        /\ h.err = "nil"
        /\ h.store[h.call.id].Addresses = EmptyAddrs

\* The calls of trace q that go to the store.
StoreCalls(q) ==
    SelectSeq(q, LAMBDA x : x \in {"GetIdentityConfidential", "CreateIdentity",
                                   "UpdateIdentity", "UpdateVerifiableAddress"})

\* What C16 says of RefreshVerifyAddress call h apart from the number of
\* store calls.
C16_OnlyCodeAndExpiry(h) ==
    /\ address[h.proc].Value = h.call.addr.Value
    /\ address[h.proc].Via = h.call.addr.Via
    /\ address[h.proc].Verified = h.call.addr.Verified
    /\ "Validate" \notin Range(trace[h.proc])
    /\ DOMAIN h.store = DOMAIN h.before
    /\ \A id \in DOMAIN h.store :
           /\ h.store[id].Traits = h.before[id].Traits
           /\ h.store[id].Credentials = h.before[id].Credentials

\* C16 as stated: RefreshVerifyAddress changes only Code and ExpiresAt of
\* the address, runs no validator call, makes exactly one store call,
\* UpdateVerifiableAddress, and leaves the Traits and Credentials of every
\* stored identity unchanged.
C16_ExactlyOneStoreCall ==
    \A h \in Entries :
        h.call.op = "RefreshVerifyAddress" =>
            /\ C16_OnlyCodeAndExpiry(h)
            /\ StoreCalls(trace[h.proc]) = <<"UpdateVerifiableAddress">>

\* C16: RefreshVerifyAddress changes only Code and ExpiresAt of the
\* address, runs no validator call and leaves the Traits and Credentials of
\* every stored identity unchanged; it makes exactly one store call,
\* UpdateVerifiableAddress, when NewVerifyCode returned a code, and no store
\* call, leaving the address as it was, when NewVerifyCode failed.
C16_OneStoreCallUnlessNoCode ==
    \A h \in Entries :
        h.call.op = "RefreshVerifyAddress" =>
            /\ C16_OnlyCodeAndExpiry(h)
            /\ h.err # "EntropyError" =>
                   StoreCalls(trace[h.proc]) = <<"UpdateVerifiableAddress">>
            /\ h.err = "EntropyError" =>
                   /\ StoreCalls(trace[h.proc]) = <<>>
                   /\ address[h.proc] = h.call.addr
                   /\ h.store = h.before

\* A verified address has been refreshed and stored.
C16_Witness ==
    \E h \in Entries :
        /\ h.call.op = "RefreshVerifyAddress"
        /\ h.err = "nil"
        /\ h.call.addr.Verified
        /\ address[h.proc].Code # h.call.addr.Code
        /\ address[h.proc].ExpiresAt # h.call.addr.ExpiresAt
        /\ \E id \in DOMAIN h.store :
               address[h.proc] \in Range(h.store[id].Addresses.items)

\* The calls an UpdateTraits call makes, in their order.
C17_Order == <<"GetIdentityConfidential", "Validate", "UpdateIdentity">>

\* C17: every UpdateTraits call reads, validates, guards and writes in
\* this order and without retries: GetIdentityConfidential is called
\* exactly once and first; if it fails, its error is returned and neither
\* the validator nor UpdateIdentity is called; the validator is called at
\* most once; UpdateIdentity is called at most once, and only after
\* validation succeeded and the guard passed or was bypassed.
C17_ReadValidateGuardWrite ==
    \A c \in Procs :
        call[c].op = "UpdateTraits" =>
            LET tr == trace[c]
                got == GetIdentityConfidential(pre[c], call[c].ctxDone, call[c].id)
                v == Validate([got.identity EXCEPT !.Traits = call[c].traits])
            IN
            /\ Len(tr) \in 1..3
            /\ tr = SubSeq(C17_Order, 1, Len(tr))
            /\ got.err # "nil" =>
                   /\ tr = <<"GetIdentityConfidential">>
                   /\ pc[c] = "done"
                   /\ err[c] = got.err
            /\ "UpdateIdentity" \in Range(tr) =>
                   /\ v.err = "nil"
                   /\ \/ call[c].AllowWriteProtectedTraits
                      \/ SameProtected(v.identity, got.identity)

\* One call has failed at the read, another has gone through to the write
\* while the first was in flight or done.
C17_Witness ==
    \E c, d \in Procs :
        /\ call[c].op = "UpdateTraits" /\ call[d].op = "UpdateTraits"
        /\ err[c] = "NotFound" /\ trace[c] = <<"GetIdentityConfidential">>
        /\ pc[d] = "done" /\ err[d] = "nil" /\ trace[d] = C17_Order
        /\ ~call[d].AllowWriteProtectedTraits

-----------------------------------------------------------------------------
(* Properties of the login Request *)

\* C10 as stated: BeforeSave followed by AfterFind gives back a Methods
\* mapping with the keys of the original one and the same RequestMethod
\* under each key.
C10_RoundTrip ==
    (rt.phase = "found" /\ rt.hook = "AfterFind") =>
        /\ ~req.Methods.isNil
        /\ req.Methods.m = rt.orig.m

\* C11: in every state reached from NewLoginRequest through BeforeSave,
\* AfterCreate, AfterUpdate and AfterFind, exactly one of Methods and
\* MethodsRaw is non-nil, never both and never neither; an empty non-nil
\* Methods counts as populated.
C11_ExactlyOneRepresentation ==
    req.Methods.isNil # req.MethodsRaw.isNil

\* A hook has rebuilt an empty, non-nil Methods from an empty MethodsRaw.
C11_Witness ==
    /\ rt.hook = "AfterUpdate"
    /\ ~rt.raw.isNil
    /\ ~req.Methods.isNil
    /\ DOMAIN req.Methods.m = {}
    /\ req.MethodsRaw.isNil

\* C12: Valid() returns FlowExpired if ExpiresAt is strictly before the
\* time it reads for the expiry check, also when IssuedAt is in the future;
\* it returns the bad-request error if ExpiresAt is not in the past and
\* IssuedAt is strictly after the time it reads next; it returns no error
\* otherwise, also when ExpiresAt equals the time read; and it changes no
\* field of the request.
C12_ValidResult ==
    validAt.called =>
        /\ req.ExpiresAt < validAt.t1 => validErr = "FlowExpired"
        /\ (req.ExpiresAt >= validAt.t1 /\ req.IssuedAt > validAt.t2) =>
               validErr = "ErrBadRequest"
        /\ (req.ExpiresAt >= validAt.t1 /\ req.IssuedAt <= validAt.t2) =>
               validErr = "nil"
        /\ validAt.kept

\* Valid() has seen a request that is expired and issued in the future.
C12_Witness ==
    /\ validAt.called
    /\ req.ExpiresAt < validAt.t1
    /\ req.IssuedAt > validAt.t2
    /\ validErr = "FlowExpired"

\* The hooks that rebuild Methods from MethodsRaw.
C15_Case == rt.hook \in {"AfterFind", "AfterCreate", "AfterUpdate"}

\* C15: AfterFind, and AfterCreate and AfterUpdate which delegate to it,
\* rebuild Methods with one entry per distinct Method of MethodsRaw; of
\* several elements with the same Method the last one is kept; afterwards
\* MethodsRaw is cleared.
C15_LastMethodWins ==
    C15_Case =>
        LET q == rt.raw.s IN
        /\ ~req.Methods.isNil
        /\ DOMAIN req.Methods.m = {q[i].Method : i \in DOMAIN q}
        /\ \A i \in DOMAIN q :
               (\A j \in DOMAIN q : j > i => q[j].Method # q[i].Method) =>
                   req.Methods.m[q[i].Method] = q[i]
        /\ req.MethodsRaw.isNil
        /\ req.MethodsRaw.s = <<>>

\* AfterCreate has rebuilt Methods from two different elements with the
\* same Method.
C15_Witness ==
    /\ rt.hook = "AfterCreate"
    /\ Len(rt.raw.s) = 2
    /\ rt.raw.s[1].Method = rt.raw.s[2].Method
    /\ rt.raw.s[1] # rt.raw.s[2]
    /\ req.Methods.m[rt.raw.s[1].Method] = rt.raw.s[2]

\* Valid() has been called on a request that NewLoginRequest built with a
\* positive lifespan and whose timestamps nobody has written since.
C18_Case == ~made.modified /\ made.exp > 0 /\ validAt.called

\* C18: a request built by NewLoginRequest with a positive lifespan, its
\* IssuedAt and ExpiresAt unmodified, is accepted by Valid() at every time
\* from its creation up to and including ExpiresAt and rejected with
\* FlowExpired at every later time; once Valid() has returned FlowExpired
\* it never succeeds again.
C18_AcceptedUntilExpiry ==
    C18_Case =>
        /\ validAt.t1 <= req.ExpiresAt => validErr = "nil"
        /\ validAt.t1 > req.ExpiresAt => validErr = "FlowExpired"
        /\ made.expired => validErr = "FlowExpired"

\* Such a request has been accepted at the very time it expires.
C18_Witness ==
    /\ C18_Case
    /\ validAt.t1 = req.ExpiresAt
    /\ validAt.t1 > made.ti
    /\ validErr = "nil"

====
